---- MODULE Spec2Model ----
(***************************************************************************)
(* She-Oracle: the streaming event protocol.                               *)
(*                                                                         *)
(*   upstream producer --> relay (router.post "/stream" and "/run")        *)
(*                     --> stream client (createAgentStream)               *)
(*                                                                         *)
(* Text is modelled character by character: a string is a sequence of      *)
(* one-character strings, a byte stream a sequence of bytes.  An ASCII     *)
(* byte is written as its character; the two bytes of the UTF-8 encoding   *)
(* of U+00E9 are written "0xC3" and "0xA9".                                *)
(***************************************************************************)
EXTENDS Integers, Sequences, FiniteSets, TLC

VARIABLES
    \* ---- stream client (createAgentStream) ----
    pc,          \* position of the client's promise chain
    goal,        \* the goal the stream was opened with
    aborted,     \* controller.signal.aborted
    netReq,      \* number of fetch() calls the client issued
    buffer,      \* `buffer`: the incomplete line kept between chunks
    pending,     \* bytes held by the TextDecoder ({stream: true})
    calls,       \* the callbacks invoked so far, in order
    \* ---- transport between relay and client ----
    down,        \* response bytes written by the server, not yet read
    downEnded,   \* the server ended the response
    status,      \* HTTP status of the response (0: none yet)
    \* ---- relay (router.post("/stream"), router.post("/run")) ----
    rpc,         \* position of the relay's handler
    route,       \* "stream" or "run"
    reqGoal,     \* req.body.goal
    upFetches,   \* number of upstream fetch() calls the relay issued
    upStatus,    \* status of the upstream response (0: none yet)
    up,          \* upstream body bytes not yet read by the relay
    rPending,    \* bytes held by the relay's TextDecoder
    errFrames,   \* number of error frames the relay synthesized
    jsonBody,    \* what res.json(...) sent ("" when not called)
    closeListener, \* req.on("close", ...) is registered
    clientGone,  \* the request's "close" event was emitted
    upCancelled, \* reader.cancel() was called
    \* ---- history (observation only) ----
    upSent,      \* the upstream body as produced, whole
    upConsumed,  \* every upstream body byte the relay took, in order

    sent,        \* every byte the server put on the response, in order
    consumed,    \* every byte the client's reader returned, in order
    cancelledAt, \* Len(calls) when cancel() was called in flight, else -1
    cancels,     \* number of calls of the function createAgentStream returned
    \* ---- reducer (useAgentStream) ----
    events,        \* `events`: the types of the entries, in order
    plan,          \* `plan`
    isStreaming,   \* `isStreaming`
    error,         \* `error`
    criticResult,  \* `criticResult`
    intentProfile, \* `intentProfile`
    subtasks,      \* `subtasks`: entries with id and status
    artifacts,     \* `artifacts`
    cancelRef,     \* cancelRef.current: 0 for null, else the stream it cancels
    streams,       \* the streams the hook opened: "open", "aborted" or "ended"
    \* ---- history of the reducer (observation only) ----
    doneSeen,      \* a done frame of a stream was decoded since startStream
    folded,        \* number of events handled
    last,          \* what the hook handled last
    scenario,      \* how far the current stream followed the scenario
    \* ---- risk session (CabSafetyPage) ----
    form,          \* `form`
    flags,         \* `flags`, in the order they were selected
    mode,          \* `mode`
    result,        \* `result`
    cabIsLoading,  \* `isLoading` of the page
    isReassessing, \* `isReassessing`
    cabError,      \* `error` of the page
    history,       \* historyRef.current
    reassessCount, \* reassessCountRef.current
    applied,       \* `applied` of the DeescalationPanel
    inflight,      \* the assessCabSafety calls not yet settled
    issued,        \* number of assessCabSafety calls issued (observation)
    rlast          \* the handler or continuation that ran last (observation)

clientVars == <<pc, goal, aborted, netReq, buffer, pending, calls>>
wireVars   == <<down, downEnded, status>>
relayVars  == <<rpc, route, reqGoal, upFetches, upStatus, up, rPending,
                errFrames, jsonBody, closeListener, clientGone, upCancelled>>
histVars   == <<sent, consumed, cancelledAt, cancels, upSent, upConsumed>>
hookVars   == <<events, plan, isStreaming, error, criticResult, intentProfile,
                subtasks, artifacts, cancelRef, streams, doneSeen, folded, last,
                scenario>>
riskVars   == <<form, flags, mode, result, cabIsLoading, isReassessing, cabError,
                history, reassessCount, applied, inflight, issued, rlast>>
vars       == <<clientVars, wireVars, relayVars, histVars, hookVars, riskVars>>

(***************************************************************************)
(* Characters and strings                                                  *)
(***************************************************************************)
Q  == "\""
BS == "\\"
NL == "\n"
SP == " "

\* the sentinel for JavaScript's `undefined` where a string is expected
Undefined == <<"undefined">>

Last(s) == s[Len(s)]
Front(s) == SubSeq(s, 1, Len(s) - 1)

\* String.prototype.startsWith
StartsWith(s, p) == Len(s) >= Len(p) /\ SubSeq(s, 1, Len(p)) = p

\* String.prototype.slice(n)
Slice(s, n) == SubSeq(s, n + 1, Len(s))

\* String.prototype.trim: strips leading and trailing white space
IsSpace(c) == c \in {SP, "\t", NL, "\r"}

RECURSIVE TrimStart(_)
TrimStart(s) ==
    IF s # <<>> /\ IsSpace(Head(s)) THEN TrimStart(Tail(s)) ELSE s

RECURSIVE TrimEnd(_)
TrimEnd(s) ==
    IF s # <<>> /\ IsSpace(Last(s)) THEN TrimEnd(Front(s)) ELSE s

Trim(s) == TrimEnd(TrimStart(s))

\* concatenation of the sequences ss[lo..hi], by halves
RECURSIVE FlatRange(_, _, _)
FlatRange(ss, lo, hi) ==
    IF lo > hi THEN <<>>
    ELSE IF lo = hi THEN ss[lo]
    ELSE FlatRange(ss, lo, (lo + hi) \div 2) \o FlatRange(ss, (lo + hi) \div 2 + 1, hi)

Flatten(ss) == FlatRange(ss, 1, Len(ss))

\* String.prototype.split("\n"): always at least one element; by halves, the
\* last piece of the left half joined to the first piece of the right half
JoinPieces(a, b) == Front(a) \o <<Last(a) \o Head(b)>> \o Tail(b)

RECURSIVE SplitRange(_, _, _)
SplitRange(s, lo, hi) ==
    IF lo > hi THEN << <<>> >>
    ELSE IF lo = hi THEN (IF s[lo] = NL THEN << <<>>, <<>> >> ELSE << <<s[lo]>> >>)
    ELSE JoinPieces(SplitRange(s, lo, (lo + hi) \div 2),
                    SplitRange(s, (lo + hi) \div 2 + 1, hi))

Split(s) == SplitRange(s, 1, Len(s))

(***************************************************************************)
(* TextDecoder / TextEncoder (UTF-8)                                       *)
(***************************************************************************)
LeadByte == "0xC3"
ContByte == "0xA9"
EAcute   == "U+00E9"
Replacement == "U+FFFD"

\* what the decoder emits on reading byte b after byte prev ("" for none): a
\* lead byte is held until its continuation byte; a broken sequence gives U+FFFD
DecodeByte(prev, b) ==
    (IF prev = LeadByte /\ b # ContByte THEN <<Replacement>> ELSE <<>>)
    \o (IF b = ContByte THEN (IF prev = LeadByte THEN <<EAcute>> ELSE <<Replacement>>)
        ELSE IF b = LeadByte THEN <<>>
        ELSE <<b>>)

\* decoder.decode(value, {stream: true}): an incomplete multi-byte sequence at
\* the end of the chunk is held back for the next call
TextDecode(pend, bytes) ==
    [text |-> Flatten([i \in 1..Len(bytes) |->
                 DecodeByte(IF i > 1 THEN bytes[i - 1]
                            ELSE IF pend = <<>> THEN "" ELSE pend[1], bytes[i])]),
     pend |-> IF bytes = <<>> THEN pend
              ELSE IF Last(bytes) = LeadByte THEN <<LeadByte>> ELSE <<>>]

\* decode without {stream: true}: nothing is carried from or to another call
TextDecodeNoStream(pend, bytes) ==
    LET r == TextDecode(<<>>, bytes) IN
    [text |-> IF r.pend = <<>> THEN r.text ELSE Append(r.text, Replacement),
     pend |-> <<>>]

\* the client's decoder: new TextDecoder(), decode(value, {stream: true})
ClientDecode(pend, bytes) == TextDecode(pend, bytes)

\* UTF-8 encoding of a string (res.write(string))
TextEncode(s) ==
    Flatten([i \in 1..Len(s) |->
        IF s[i] = EAcute THEN <<LeadByte, ContByte>>
        ELSE IF s[i] = Replacement THEN <<"0xEF", "0xBF", "0xBD">>
        ELSE <<s[i]>>])

(***************************************************************************)
(* JSON.parse, on the JSON texts the protocol uses: null, and objects      *)
(* whose members are strings.  Of a parsed object the model keeps the      *)
(* members the code reads: type and content.                               *)
(***************************************************************************)
IsJsonWs(c) == c \in {SP, "\t", NL, "\r"}

RECURSIVE SkipWs(_, _)
SkipWs(s, i) == IF i <= Len(s) /\ IsJsonWs(s[i]) THEN SkipWs(s, i + 1) ELSE i

\* the characters of a string literal after its opening quote, from i on
RECURSIVE ScanString(_, _, _)
ScanString(s, i, acc) ==
    IF i > Len(s) THEN [ok |-> FALSE, val |-> <<>>, next |-> i]
    ELSE IF s[i] = Q THEN [ok |-> TRUE, val |-> acc, next |-> i + 1]
    ELSE IF s[i] = BS
         THEN IF i + 1 > Len(s) THEN [ok |-> FALSE, val |-> <<>>, next |-> i]
              ELSE IF s[i + 1] \in {Q, BS} THEN ScanString(s, i + 2, Append(acc, s[i + 1]))
              ELSE IF s[i + 1] = "n" THEN ScanString(s, i + 2, Append(acc, NL))
              ELSE [ok |-> FALSE, val |-> <<>>, next |-> i]
    ELSE IF s[i] \in {NL, "\r", "\t"} THEN [ok |-> FALSE, val |-> <<>>, next |-> i]
    ELSE ScanString(s, i + 1, Append(acc, s[i]))

ParseString(s, i) ==
    IF i <= Len(s) /\ s[i] = Q THEN ScanString(s, i + 1, <<>>)
    ELSE [ok |-> FALSE, val |-> <<>>, next |-> i]

KeyType    == <<"t", "y", "p", "e">>
KeyContent == <<"c", "o", "n", "t", "e", "n", "t">>

EmptyObject == [type |-> Undefined, content |-> Undefined]

SetMember(obj, k, v) ==
    IF k = KeyType THEN [obj EXCEPT !.type = v]
    ELSE IF k = KeyContent THEN [obj EXCEPT !.content = v]
    ELSE obj

ParseFail == [kind |-> "error", val |-> EmptyObject]

\* members of an object, i at the first key
RECURSIVE ParseMembers(_, _, _)
ParseMembers(s, i, obj) ==
    LET k  == ParseString(s, i)
        c  == SkipWs(s, k.next)
        v  == ParseString(s, SkipWs(s, c + 1))
        e  == SkipWs(s, v.next)
    IN  IF ~k.ok \/ c > Len(s) \/ s[c] # ":" THEN ParseFail
        ELSE IF ~v.ok \/ e > Len(s) THEN ParseFail
        ELSE IF s[e] = "," THEN ParseMembers(s, SkipWs(s, e + 1), SetMember(obj, k.val, v.val))
        ELSE IF s[e] = "}" /\ SkipWs(s, e + 1) > Len(s)
             THEN [kind |-> "object", val |-> SetMember(obj, k.val, v.val)]
        ELSE ParseFail

JSONParse(s) ==
    LET i == SkipWs(s, 1) IN
    IF i > Len(s) THEN ParseFail
    ELSE IF s[i] = "{"
         THEN LET j == SkipWs(s, i + 1) IN
              IF j <= Len(s) /\ s[j] = "}"
              THEN IF SkipWs(s, j + 1) > Len(s)
                   THEN [kind |-> "object", val |-> EmptyObject]
                   ELSE ParseFail
              ELSE ParseMembers(s, j, EmptyObject)
    ELSE IF Len(s) >= i + 3 /\ SubSeq(s, i, i + 3) = <<"n", "u", "l", "l">>
            /\ SkipWs(s, i + 4) > Len(s)
         THEN [kind |-> "null", val |-> EmptyObject]
    ELSE ParseFail

(***************************************************************************)
(* JSON.stringify of a string and of {type: "error", content}              *)
(***************************************************************************)
Escape(s) ==
    Flatten([i \in 1..Len(s) |->
        IF s[i] \in {Q, BS} THEN <<BS, s[i]>>
        ELSE IF s[i] = NL THEN <<BS, "n">>
        ELSE <<s[i]>>])

JSONString(s) == <<Q>> \o Escape(s) \o <<Q>>

TypeError == <<"e", "r", "r", "o", "r">>
TypeDone  == <<"d", "o", "n", "e">>

JSONStringifyError(content) ==
    <<"{">> \o JSONString(KeyType) \o <<":">> \o JSONString(TypeError) \o <<",">>
    \o JSONString(KeyContent) \o <<":">> \o JSONString(content) \o <<"}">>

(***************************************************************************)
(* The stream client: createAgentStream                                    *)
(***************************************************************************)
\* what no step of the client touches
ClientFrame == UNCHANGED <<downEnded, status, sent, relayVars, upSent, upConsumed,
                          hookVars, riskVars>>

DataPrefix == <<"d", "a", "t", "a", ":", SP>>
PrefixLen  == 6

NoEvent == EmptyObject

EventCall(ev)  == [cb |-> "onEvent", ev |-> ev, msg |-> ""]
DoneCall       == [cb |-> "onDone", ev |-> NoEvent, msg |-> ""]
ErrorCall(m)   == [cb |-> "onError", ev |-> NoEvent, msg |-> m]

\* catch { /* ignore parse errors */ } around JSON.parse and the dispatch
\* (variant: a parse error is reported)
ReportParseError(cs) == Append(cs, ErrorCall("parse error"))
OnParseError(cs) == cs

\* the body of `for (const line of lines)`
ProcessLine(line, cs) ==
    IF StartsWith(line, DataPrefix)
    THEN LET r == JSONParse(Slice(line, PrefixLen)) IN
         IF r.kind = "error" THEN OnParseError(cs)
         ELSE IF r.kind = "null" THEN OnParseError(cs)  \* event.type throws TypeError
         ELSE IF r.val.type = TypeDone THEN Append(cs, DoneCall)
         ELSE Append(cs, EventCall(r.val))
    ELSE cs

RECURSIVE ProcessLines(_, _)
ProcessLines(lines, cs) ==
    IF lines = <<>> THEN cs
    ELSE ProcessLines(Tail(lines), ProcessLine(Head(lines), cs))

\* buffer = lines.pop()
\* (variant: the incomplete line is dropped)
DropIncomplete(lines) == <<>>
KeepIncomplete(lines) == Last(lines)

\* one iteration of the read loop on a chunk `value`
\* (variant: the incomplete last line is processed with the others)
ProcessChunkEveryLine(buf, pend, cs, value) ==
    LET d     == ClientDecode(pend, value)
        lines == Split(buf \o d.text)
    IN
    [buffer  |-> KeepIncomplete(lines),
     pending |-> d.pend,
     calls   |-> ProcessLines(lines, cs)]
ProcessChunk(buf, pend, cs, value) ==
    LET d     == ClientDecode(pend, value)
        lines == Split(buf \o d.text)
    IN
    [buffer  |-> KeepIncomplete(lines),
     pending |-> d.pend,
     calls   |-> ProcessLines(Front(lines), cs)]

\* .catch((err) => { if (err.name !== "AbortError") onError(err.message || "Connection error.") })
\* (variant: every rejection is reported)
CatchAlways(name, message, cs) ==
    Append(cs, ErrorCall(IF message # "" THEN message ELSE "Connection error."))
CatchHandler(name, message, cs) ==
    IF name # "AbortError"
    THEN Append(cs, ErrorCall(IF message # "" THEN message ELSE "Connection error."))
    ELSE cs

\* res.ok
\* (variant: the status is not looked at)
OkAlways(st) == TRUE
Ok(st) == st >= 200 /\ st <= 299

\* (variant: a rejection is pending whatever the position)
InFlightAlways == TRUE
InFlight == pc \in {"fetching", "reading"}

\* createAgentStream({goal, ...}): the fetch is issued at once
CreateAgentStream(g) ==
    /\ pc = "idle"
    /\ pc' = "fetching"
    /\ goal' = g
    /\ netReq' = netReq + 1
    /\ UNCHANGED <<aborted, buffer, pending, calls, down, consumed, cancelledAt, cancels>>
    /\ ClientFrame

\* GoalInput.handleSubmit, then the page's handleSubmit -> startStream ->
\* createAgentStream; isLoading is the hook's isStreaming: set by startStream,
\* cleared by onDone, onError and cancel
isLoading ==
    /\ pc \in {"fetching", "reading"}
    /\ \A i \in 1..Len(calls) : calls[i].cb = "onEvent"

HandleSubmit(g) ==
    /\ ~(Trim(g) = <<>> \/ isLoading)
    /\ CreateAgentStream(Trim(g))

\* .then(async (res) => { if (!res.ok) {...; return;} const reader = ...; let buffer = ""
FetchResolve ==
    /\ pc = "fetching"
    /\ status # 0
    /\ IF ~Ok(status)
       THEN /\ calls' = Append(calls, ErrorCall("Stream connection failed."))
            /\ pc' = "refused"
       ELSE /\ calls' = calls
            /\ pc' = "reading"
    /\ buffer' = <<>>
    /\ pending' = <<>>
    /\ UNCHANGED <<goal, aborted, netReq, down, consumed, cancelledAt, cancels>>
    /\ ClientFrame

\* fetch() rejects: the network failed before a response
FetchReject(message) ==
    /\ pc = "fetching"
    /\ calls' = CatchHandler("TypeError", message, calls)
    /\ pc' = "failed"
    /\ UNCHANGED <<goal, aborted, netReq, buffer, pending, down, consumed, cancelledAt, cancels>>
    /\ ClientFrame

\* reader.read() resolves with the next n bytes; the chunk is processed
ReadChunk(n) ==
    /\ pc = "reading"
    /\ n \in 1..Len(down)
    /\ \E r \in {ProcessChunk(buffer, pending, calls, SubSeq(down, 1, n))} :
           /\ buffer' = r.buffer
           /\ pending' = r.pending
           /\ calls' = r.calls
    /\ consumed' = consumed \o SubSeq(down, 1, n)
    /\ down' = SubSeq(down, n + 1, Len(down))
    /\ UNCHANGED <<pc, goal, aborted, netReq, cancelledAt, cancels>>
    /\ ClientFrame

\* reader.read() resolves {done: true}: break, then the trailing onDone?.()
ReadDone ==
    /\ pc = "reading"
    /\ down = <<>>
    /\ downEnded
    /\ calls' = Append(calls, DoneCall)
    /\ pc' = "closed"
    /\ UNCHANGED <<goal, aborted, netReq, buffer, pending, down, consumed, cancelledAt, cancels>>
    /\ ClientFrame

\* reader.read() rejects: the network failed during the body
ReadError(message) ==
    /\ pc = "reading"
    /\ ~downEnded \/ down # <<>>
    /\ calls' = CatchHandler("TypeError", message, calls)
    /\ pc' = "failed"
    /\ UNCHANGED <<goal, aborted, netReq, buffer, pending, down, consumed, cancelledAt, cancels>>
    /\ ClientFrame

\* how often the returned function is called on one stream
MaxCancels == 2

\* the returned function, () => controller.abort(): a pending fetch or read
\* rejects with an AbortError, which the catch handler receives
Cancel ==
    /\ pc # "idle"
    /\ cancels < MaxCancels
    /\ cancels' = cancels + 1
    /\ aborted' = TRUE
    /\ IF InFlight /\ ~aborted
       THEN /\ calls' = CatchHandler("AbortError", "The user aborted a request.", calls)
            /\ pc' = "aborted"
            /\ cancelledAt' = Len(calls)
       ELSE UNCHANGED <<calls, pc, cancelledAt>>
    /\ UNCHANGED <<goal, netReq, buffer, pending, down, consumed>>
    /\ ClientFrame

(***************************************************************************)
(* The relay: router.post("/stream"), router.post("/run")                  *)
(***************************************************************************)
\* what no step of the relay touches
RelayFrame == UNCHANGED <<clientVars, consumed, cancelledAt, cancels, hookVars,
                         riskVars>>

\* if (!goal || !goal.trim())
\* (variant: no trim)
GoalMissingNoTrim(g) == g = Undefined \/ g = <<>>
GoalMissing(g) == g = Undefined \/ g = <<>> \/ Trim(g) = <<>>

\* "Orchestrator unreachable. Is the Python server running on port 8000?", abbreviated
Unreachable == <<"d", "o", "w", "n", "?">>

\* `data: ${JSON.stringify({ type: "error", content })}\n\n`
ErrorFrame(content) == DataPrefix \o JSONStringifyError(content) \o <<NL, NL>>

\* res.write(str)
ResWrite(str) ==
    /\ down' = down \o TextEncode(str)
    /\ sent' = sent \o TextEncode(str)

\* router.post("/stream"), up to the first await
RelayStream(g) ==
    /\ rpc = "idle"
    /\ route' = "stream"
    /\ reqGoal' = g
    /\ IF GoalMissing(g)
       THEN /\ status' = 400
            /\ jsonBody' = "Goal is required."
            /\ downEnded' = TRUE
            /\ rpc' = "ended"
            /\ UNCHANGED upFetches
       ELSE /\ status' = 200            \* res.flushHeaders()
            /\ upFetches' = upFetches + 1
            /\ rpc' = "fetching"
            /\ UNCHANGED <<jsonBody, downEnded>>
    /\ UNCHANGED <<upStatus, up, rPending, errFrames, closeListener,
                   clientGone, upCancelled, down, sent, upSent, upConsumed>>
    /\ RelayFrame

\* the catch of the handler: one error frame, then res.end()
OuterCatch ==
    /\ ResWrite(ErrorFrame(Unreachable))
    /\ errFrames' = errFrames + 1
    /\ downEnded' = TRUE
    /\ rpc' = "ended"

\* the upstream fetch resolves with status st and body `body`
\* (variant: the status is not looked at)
SkipReturnAfterNotOk(st) == "pumping"
AfterUpstream(st) == IF Ok(st) THEN "pumping" ELSE "errbody"

UpFetchResolve(st, body) ==
    /\ rpc = "fetching"
    /\ upStatus' = st
    /\ up' = body
    /\ upSent' = body
    /\ rpc' = AfterUpstream(st)
    /\ rPending' = <<>>
    \* pump() runs to its first await; then req.on("close") is registered
    /\ closeListener' = (AfterUpstream(st) = "pumping")
    /\ UNCHANGED <<route, reqGoal, upFetches, errFrames, jsonBody, clientGone,
                   upCancelled, down, downEnded, status, sent, upConsumed>>
    /\ RelayFrame

\* the upstream fetch rejects: connection failure
UpFetchReject ==
    /\ rpc = "fetching"
    /\ OuterCatch
    /\ UNCHANGED <<route, reqGoal, upFetches, upStatus, up, rPending, jsonBody,
                   closeListener, clientGone, upCancelled, status, upSent, upConsumed>>
    /\ RelayFrame

\* if (!upstream.ok): await upstream.text() resolves; one frame; res.end(); return
ErrBodyResolve ==
    /\ rpc = "errbody"
    /\ ResWrite(ErrorFrame(TextDecodeNoStream(<<>>, up).text))
    /\ errFrames' = errFrames + 1
    /\ up' = <<>>
    /\ downEnded' = TRUE
    /\ rpc' = "ended"
    /\ upConsumed' = upConsumed \o up
    /\ UNCHANGED <<route, reqGoal, upFetches, upStatus, rPending, jsonBody,
                   closeListener, clientGone, upCancelled, status, upSent>>
    /\ RelayFrame

\* await upstream.text() rejects: the handler's catch
ErrBodyReject ==
    /\ rpc = "errbody"
    /\ OuterCatch
    /\ UNCHANGED <<route, reqGoal, upFetches, upStatus, up, rPending, jsonBody,
                   closeListener, clientGone, upCancelled, status, upSent, upConsumed>>
    /\ RelayFrame

\* res.write(decoder.decode(value, { stream: true }))
\* (variant: decode without { stream: true })
PumpWriteNoStream(pend, value) == TextDecodeNoStream(pend, value)
PumpWrite(pend, value) == TextDecode(pend, value)

\* pump: reader.read() resolves with the next n bytes
PumpRead(n) ==
    /\ rpc = "pumping"
    /\ ~upCancelled
    /\ n \in 1..Len(up)
    /\ LET d == PumpWrite(rPending, SubSeq(up, 1, n)) IN
       /\ ResWrite(d.text)
       /\ rPending' = d.pend
    /\ up' = SubSeq(up, n + 1, Len(up))
    /\ UNCHANGED errFrames
    /\ upConsumed' = upConsumed \o SubSeq(up, 1, n)
    /\ UNCHANGED <<rpc, route, reqGoal, upFetches, upStatus, jsonBody, closeListener,
                   clientGone, upCancelled, downEnded, status, upSent>>
    /\ RelayFrame

\* pump: reader.read() resolves {done: true} (end of body, or reader.cancel()):
\* break; res.end()
PumpDone ==
    /\ rpc = "pumping"
    /\ up = <<>> \/ upCancelled
    /\ downEnded' = TRUE
    /\ rpc' = "ended"
    /\ UNCHANGED <<route, reqGoal, upFetches, upStatus, up, rPending, errFrames,
                   jsonBody, closeListener, clientGone, upCancelled, down, status, sent,
                   upSent, upConsumed>>
    /\ RelayFrame

\* pump: reader.read() rejects; pump().catch writes one frame and ends
PumpError(message) ==
    /\ rpc = "pumping"
    /\ ~upCancelled
    /\ ResWrite(ErrorFrame(message))
    /\ errFrames' = errFrames + 1
    /\ downEnded' = TRUE
    /\ rpc' = "ended"
    /\ UNCHANGED <<route, reqGoal, upFetches, upStatus, up, rPending, jsonBody,
                   closeListener, clientGone, upCancelled, status, upSent, upConsumed>>
    /\ RelayFrame

\* the downstream client disconnects: "close" is emitted once, to the
\* listeners registered at that moment: req.on("close", () => reader.cancel())
ListenerRuns == closeListener

ClientClose ==
    /\ rpc # "idle"
    /\ ~clientGone
    /\ clientGone' = TRUE
    /\ upCancelled' = ListenerRuns
    /\ UNCHANGED <<rpc, route, reqGoal, upFetches, upStatus, up, rPending, errFrames,
                   jsonBody, closeListener, down, downEnded, status, sent, upSent,
                   upConsumed>>
    /\ RelayFrame

\* router.post("/run"), up to the first await
RelayRun(g) ==
    /\ rpc = "idle"
    /\ route' = "run"
    /\ reqGoal' = g
    /\ IF GoalMissing(g)
       THEN /\ status' = 400
            /\ jsonBody' = "Goal is required."
            /\ downEnded' = TRUE
            /\ rpc' = "ended"
            /\ UNCHANGED upFetches
       ELSE /\ upFetches' = upFetches + 1
            /\ rpc' = "runFetching"
            /\ UNCHANGED <<status, jsonBody, downEnded>>
    /\ UNCHANGED <<upStatus, up, rPending, errFrames, closeListener,
                   clientGone, upCancelled, down, sent, upSent, upConsumed>>
    /\ RelayFrame

\* /run: the upstream fetch resolves; the body is then awaited
\* (upstream.text() when !upstream.ok, upstream.json() otherwise)
RunFetchResolve(st) ==
    /\ rpc = "runFetching"
    /\ upStatus' = st
    /\ rpc' = "runBody"
    /\ UNCHANGED <<route, reqGoal, upFetches, up, rPending, errFrames, jsonBody,
                   closeListener, clientGone, upCancelled, down, downEnded, status, sent,
                   upSent, upConsumed>>
    /\ RelayFrame

\* /run: the body arrives: res.status(upstream.status).json({error}) or res.json(data)
RunBodyResolve ==
    /\ rpc = "runBody"
    /\ status' = upStatus
    /\ jsonBody' = IF Ok(upStatus) THEN "data" ELSE "error"
    /\ downEnded' = TRUE
    /\ rpc' = "ended"
    /\ UNCHANGED <<route, reqGoal, upFetches, upStatus, up, rPending, errFrames,
                   closeListener, clientGone, upCancelled, down, sent, upSent,
                   upConsumed>>
    /\ RelayFrame

\* /run: the fetch or the body read rejects: catch, status 500
RunReject ==
    /\ rpc \in {"runFetching", "runBody"}
    /\ status' = 500
    /\ jsonBody' = "Orchestrator unreachable. Is the Python server running?"
    /\ downEnded' = TRUE
    /\ rpc' = "ended"
    /\ UNCHANGED <<route, reqGoal, upFetches, upStatus, up, rPending, errFrames,
                   closeListener, clientGone, upCancelled, down, sent, upSent,
                   upConsumed>>
    /\ RelayFrame

(***************************************************************************)
(* The reducer: useAgentStream                                             *)
(*                                                                         *)
(* The hook sees a stream through its three callbacks.  A stream is open   *)
(* from createAgentStream until its transport closes, fails or is aborted; *)
(* only an open stream invokes callbacks.  A value that may be null is a   *)
(* sequence of at most one element.                                        *)
(***************************************************************************)
\* what no step of the hook touches
HookFrame == UNCHANGED <<clientVars, wireVars, relayVars, histVars, riskVars>>

Null == <<>>
Some(x) == <<x>>

NoArtifact == [id |-> "", from |-> ""]

\* an event as onEvent receives it, with the members the reducer reads
Event(type) ==
    [type |-> type, subtask_id |-> 0, subtasks |-> Null,
     artifact |-> NoArtifact, plan |-> Null, intent |-> ""]

\* what the hook handled last: a callback of stream src, or a call of the hook
Handled(src, cb, ev, msg) == [src |-> src, cb |-> cb, ev |-> ev, msg |-> msg]
NoEventYet == Event("")
Nothing == Handled(0, "none", NoEventYet, "")

\* useState(...): the initial values, which startStream and reset set again
Cleared ==
    /\ events' = <<>>
    /\ plan' = Null
    /\ error' = Null
    /\ criticResult' = Null
    /\ intentProfile' = Null
    /\ subtasks' = <<>>
    /\ artifacts' = <<>>

\* cancelRef.current(): controller.abort() of the stream the ref points to
\* (variant: the prior stream is left running)
KeepPrior(ss, ref) == ss
AbortPrior(ss, ref) ==
    [s \in DOMAIN ss |-> IF s = ref /\ ss[s] = "open" THEN "aborted" ELSE ss[s]]

\* prev.map((st) => st.id === event.subtask_id ? { ...st, status } : st)
\* (variant: a subtask that is not in the list is added)
MapStatusOrAdd(subs, id, st) ==
    IF \E i \in DOMAIN subs : subs[i].id = id
    THEN [i \in DOMAIN subs |->
             IF subs[i].id = id THEN [subs[i] EXCEPT !.status = st] ELSE subs[i]]
    ELSE Append(subs, [id |-> id, status |-> st])
MapStatus(subs, id, st) ==
    [i \in DOMAIN subs |->
        IF subs[i].id = id THEN [subs[i] EXCEPT !.status = st] ELSE subs[i]]

\* if (event.plan?.artifacts?.length > 0) setArtifacts(event.plan.artifacts)
\* (variant: the plan's artifacts are added to the list)
MergeArtifacts(prev, p) ==
    IF p # Null THEN prev \o p[1].artifacts ELSE prev
SyncArtifacts(prev, p) ==
    IF p # Null /\ Len(p[1].artifacts) > 0 THEN p[1].artifacts ELSE prev

\* setEvents((prev) => [...prev, { ...event, id: ... }]); of an entry the
\* model keeps the type
\* (variant: the entry is put first)
AddEventFirst(prev, e) == <<e.type>> \o prev
AddEvent(prev, e) == Append(prev, e.type)

\* setError(msg)
\* (variant: the message is dropped)
DropMessage(msg) == Null
SetError(msg) == Some(msg)

\* the scenario: plan_decomposed with subtask 1, subtask_start 1,
\* subtask_complete 1, result with a plan, done; Step is how far the callbacks
\* of the current stream have followed it (-1: they left it)
ScenarioStep(n, cb, e) ==
    IF n = 0 /\ cb = "onEvent" /\ e.type = "plan_decomposed"
             /\ e.subtasks = Some(<<[id |-> 1, status |-> "pending"]>>) THEN 1
    ELSE IF n = 1 /\ cb = "onEvent" /\ e.type = "subtask_start" /\ e.subtask_id = 1 THEN 2
    ELSE IF n = 2 /\ cb = "onEvent" /\ e.type = "subtask_complete" /\ e.subtask_id = 1 THEN 3
    ELSE IF n = 3 /\ cb = "onEvent" /\ e.type = "result" /\ e.plan # Null THEN 4
    ELSE IF n = 4 /\ cb = "onDone" THEN 5
    ELSE -1

\* how many streams are started, how many events are handled
MaxStreams == 2
MaxEvents  == 4

\* startStream({ goal, ... })
StartStream ==
    /\ Len(streams) < MaxStreams
    /\ Cleared
    /\ isStreaming' = TRUE
    /\ streams' = Append(AbortPrior(streams, cancelRef), "open")
    /\ cancelRef' = Len(streams) + 1
    /\ doneSeen' = FALSE
    /\ last' = Nothing
    /\ scenario' = 0
    /\ UNCHANGED folded
    /\ HookFrame

\* onEvent: (event) => { ... }, invoked by stream s
OnEvent(s, e) ==
    /\ s \in DOMAIN streams /\ streams[s] = "open"
    /\ folded < MaxEvents
    /\ folded' = folded + 1
    /\ plan' = IF e.type = "result" THEN e.plan ELSE plan
    /\ artifacts' =
          IF e.type = "result" THEN SyncArtifacts(artifacts, e.plan)
          ELSE IF e.type = "artifact_ready" THEN Append(artifacts, e.artifact)
          ELSE artifacts
    /\ criticResult' = IF e.type = "critic" THEN Some(e) ELSE criticResult
    /\ intentProfile' = IF e.type = "intent_analyzed" THEN Some(e.intent) ELSE intentProfile
    /\ subtasks' =
          IF e.type = "plan_decomposed"
          THEN (IF e.subtasks = Null THEN <<>> ELSE e.subtasks[1])
          ELSE IF e.type = "subtask_start" THEN MapStatus(subtasks, e.subtask_id, "active")
          ELSE IF e.type = "subtask_complete" THEN MapStatus(subtasks, e.subtask_id, "complete")
          ELSE subtasks
    /\ events' =
          IF e.type \in {"result", "subtask_start", "subtask_complete"} THEN events
          ELSE AddEvent(events, e)
    /\ last' = Handled(s, "onEvent", e, "")
    /\ scenario' = ScenarioStep(scenario, "onEvent", e)
    /\ UNCHANGED <<isStreaming, error, cancelRef, streams, doneSeen>>
    /\ HookFrame

\* onDone: () => setIsStreaming(false), invoked by stream s for a done frame;
\* the stream goes on reading
OnDoneFrame(s) ==
    /\ s \in DOMAIN streams /\ streams[s] = "open"
    /\ isStreaming' = FALSE
    /\ doneSeen' = TRUE
    /\ last' = Handled(s, "onDone", NoEventYet, "")
    /\ scenario' = ScenarioStep(scenario, "onDone", NoEventYet)
    /\ UNCHANGED <<events, plan, error, criticResult, intentProfile, subtasks,
                   artifacts, cancelRef, streams, folded>>
    /\ HookFrame

\* onDone, invoked by stream s when its transport closed
OnDoneClose(s) ==
    /\ s \in DOMAIN streams /\ streams[s] = "open"
    /\ isStreaming' = FALSE
    /\ streams' = [streams EXCEPT ![s] = "ended"]
    /\ last' = Handled(s, "onDone", NoEventYet, "")
    /\ scenario' = IF scenario = 5 THEN 5 ELSE -1
    /\ UNCHANGED <<events, plan, error, criticResult, intentProfile, subtasks,
                   artifacts, cancelRef, doneSeen, folded>>
    /\ HookFrame

\* onError: (msg) => { setError(msg); setIsStreaming(false); }, invoked by
\* stream s, which has ended
OnError(s, msg) ==
    /\ s \in DOMAIN streams /\ streams[s] = "open"
    /\ error' = SetError(msg)
    /\ isStreaming' = FALSE
    /\ streams' = [streams EXCEPT ![s] = "ended"]
    /\ last' = Handled(s, "onError", NoEventYet, msg)
    /\ scenario' = -1
    /\ UNCHANGED <<events, plan, criticResult, intentProfile, subtasks,
                   artifacts, cancelRef, doneSeen, folded>>
    /\ HookFrame

\* cancel(): if (cancelRef.current) { cancelRef.current(); setIsStreaming(false); }
HookCancel ==
    /\ cancelRef # 0
    /\ streams' = AbortPrior(streams, cancelRef)
    /\ isStreaming' = FALSE
    /\ last' = Handled(cancelRef, "cancel", NoEventYet, "")
    /\ UNCHANGED <<events, plan, error, criticResult, intentProfile, subtasks,
                   artifacts, cancelRef, doneSeen, folded, scenario>>
    /\ HookFrame

\* reset(): cancel(), then the initial values
Reset ==
    /\ streams' = AbortPrior(streams, cancelRef)
    /\ isStreaming' = IF cancelRef # 0 THEN FALSE ELSE isStreaming
    /\ Cleared
    /\ last' = Handled(cancelRef, "reset", NoEventYet, "")
    /\ scenario' = -1
    /\ UNCHANGED <<cancelRef, doneSeen, folded>>
    /\ HookFrame

(***************************************************************************)
(* The risk session: CabSafetyPage                                         *)
(*                                                                         *)
(* A handler runs to its first await in one step; the continuation of an   *)
(* assessCabSafety call runs when the call settles.  Calls settle in any   *)
(* order.  A control is available when the page renders it enabled.        *)
(***************************************************************************)
RiskFrame == UNCHANGED <<clientVars, wireVars, relayVars, histVars, hookVars>>

\* useState({driver_name: "", ..., time_of_day: "day", area_type: "urban"});
\* driver_name stands for the four text fields, which are handled alike
DefaultForm == [driver_name |-> "", time_of_day |-> "day", area_type |-> "urban"]

SITUATION_UPDATES ==
    <<[id |-> "route_corrected",   removes |-> Some({"route_deviation"}), reduces_area |-> Null],
      [id |-> "entered_busy_area", removes |-> Null, reduces_area |-> Some("urban")],
      [id |-> "doors_unlocked",    removes |-> Some({"doors_locked"}), reduces_area |-> Null],
      [id |-> "calm_behaviour",    removes |-> Some({"aggressive", "personal_questions"}),
                                   reduces_area |-> Null],
      [id |-> "back_on_app",       removes |-> Some({"cancel_app"}), reduces_area |-> Null]>>

Includes(seq, x) == \E i \in DOMAIN seq : seq[i] = x

\* prev.includes(x) ? prev.filter((u) => u !== x) : [...prev, x]
Toggle(seq, x) ==
    IF Includes(seq, x) THEN SelectSeq(seq, LAMBDA u : u # x) ELSE Append(seq, x)

\* SITUATION_UPDATES.find((u) => u.id === updateId)
Find(updateId) ==
    LET found == {i \in DOMAIN SITUATION_UPDATES : SITUATION_UPDATES[i].id = updateId} IN
    IF found = {} THEN Null
    ELSE Some(SITUATION_UPDATES[CHOOSE i \in found : \A j \in found : i <= j])

\* the loop of DeescalationPanel.handleReassess over `applied`
\* (variant: the loop stops after the first applied update)
ApplyUpdatesFirstOnly(fl, area, app) ==
    IF app = <<>> THEN [updatedFlags |-> fl, updatedArea |-> area]
    ELSE LET u == Find(Head(app)) IN
         [updatedFlags |-> IF u # Null /\ u[1].removes # Null
                           THEN SelectSeq(fl, LAMBDA f : f \notin u[1].removes[1]) ELSE fl,
          updatedArea |-> IF u # Null /\ u[1].reduces_area # Null
                          THEN u[1].reduces_area[1] ELSE area]
RECURSIVE ApplyUpdates(_, _, _)
ApplyUpdates(fl, area, app) ==
    IF app = <<>> THEN [updatedFlags |-> fl, updatedArea |-> area]
    ELSE LET u == Find(Head(app)) IN
         IF u = Null THEN ApplyUpdates(fl, area, Tail(app))
         ELSE ApplyUpdates(
                  IF u[1].removes # Null
                  THEN SelectSeq(fl, LAMBDA f : f \notin u[1].removes[1]) ELSE fl,
                  IF u[1].reduces_area # Null THEN u[1].reduces_area[1] ELSE area,
                  Tail(app))

\* the response of the scoring call, and the snapshot taken from it
Data(score, level) == [risk |-> [score |-> score, level |-> level]]
Snapshot(data) == [score |-> data.risk.score, level |-> data.risk.level]

\* a settled or pending assessCabSafety call, with what its continuation holds
Call(id, kind, f, fl) == [id |-> id, kind |-> kind, form |-> f, flags |-> fl]

Ran(op, id) == [op |-> op, id |-> id]

\* {result && mode === "monitoring" && <DeescalationPanel .../>}: the panel's
\* `applied` lives while the panel is rendered
PanelShown(res, m) == res # Null /\ m = "monitoring"
Applied(app, res, m) == IF PanelShown(res, m) THEN app ELSE <<>>

\* err?.response?.data?.error || err.message || "Assessment failed. Is the server running?"
ErrorText(err) ==
    IF err.response # "" THEN err.response
    ELSE IF err.message # "" THEN err.message
    ELSE "Assessment failed. Is the server running?"

\* how many scoring calls a run issues
MaxRiskCalls == 3

\* set(key, val), from the inputs of the form (rendered while mode !== "closed")
SetField(key, val) ==
    /\ mode # "closed"
    /\ form[key] # val
    /\ form' = [form EXCEPT ![key] = val]
    /\ rlast' = Ran("set", 0)
    /\ UNCHANGED <<flags, mode, result, cabIsLoading, isReassessing, cabError, history,
                   reassessCount, applied, inflight, issued>>
    /\ RiskFrame

\* <BehaviourFlags selected={flags} onChange={setFlags} />
ToggleFlag(f) ==
    /\ mode # "closed"
    /\ flags' = Toggle(flags, f)
    /\ rlast' = Ran("flag", 0)
    /\ UNCHANGED <<form, mode, result, cabIsLoading, isReassessing, cabError, history,
                   reassessCount, applied, inflight, issued>>
    /\ RiskFrame

\* DeescalationPanel.toggle
ToggleUpdate(updateId) ==
    /\ PanelShown(result, mode)
    /\ applied' = Toggle(applied, updateId)
    /\ rlast' = Ran("update", 0)
    /\ UNCHANGED <<form, flags, mode, result, cabIsLoading, isReassessing, cabError,
                   history, reassessCount, inflight, issued>>
    /\ RiskFrame

\* the assess button: disabled={isLoading}, rendered while mode !== "closed"
AssessEnabled == mode # "closed" /\ ~cabIsLoading

\* handleAssess, up to the await
HandleAssess ==
    /\ AssessEnabled
    /\ issued < MaxRiskCalls
    /\ cabIsLoading' = TRUE
    /\ cabError' = Null
    /\ result' = Null
    /\ history' = <<>>
    /\ reassessCount' = 0
    /\ issued' = issued + 1
    /\ inflight' = inflight \cup {Call(issued + 1, "assess", form, flags)}
    /\ applied' = Applied(applied, Null, mode)
    /\ rlast' = Ran("assess", issued + 1)
    /\ UNCHANGED <<form, flags, mode, isReassessing>>
    /\ RiskFrame

\* handleAssess: the call resolves with `data`
AssessResolve(c, data) ==
    /\ c \in inflight /\ c.kind = "assess"
    /\ inflight' = inflight \ {c}
    /\ result' = Some(data)
    /\ mode' = "monitoring"
    /\ history' = <<Snapshot(data)>>
    /\ cabIsLoading' = FALSE
    /\ applied' = Applied(applied, Some(data), "monitoring")
    /\ rlast' = Ran("assessOk", c.id)
    /\ UNCHANGED <<form, flags, isReassessing, cabError, reassessCount, issued>>
    /\ RiskFrame

\* handleAssess: the call rejects with `err`
AssessReject(c, err) ==
    /\ c \in inflight /\ c.kind = "assess"
    /\ inflight' = inflight \ {c}
    /\ cabError' = Some(ErrorText(err))
    /\ cabIsLoading' = FALSE
    /\ rlast' = Ran("assessFail", c.id)
    /\ UNCHANGED <<form, flags, mode, result, isReassessing, history, reassessCount,
                   applied, issued>>
    /\ RiskFrame

\* the reassess button: disabled={applied.length === 0 || isReassessing}, in the
\* panel rendered while result && mode === "monitoring"
ReassessEnabled == PanelShown(result, mode) /\ applied # <<>> /\ ~isReassessing

\* DeescalationPanel.handleReassess, then handleReassess up to the await
HandleReassess ==
    /\ ReassessEnabled
    /\ issued < MaxRiskCalls
    /\ LET u == ApplyUpdates(flags, form.area_type, applied)
           updatedForm == [form EXCEPT !.area_type = u.updatedArea]
       IN inflight' = inflight \cup {Call(issued + 1, "reassess", updatedForm, u.updatedFlags)}
    /\ isReassessing' = TRUE
    /\ issued' = issued + 1
    /\ rlast' = Ran("reassess", issued + 1)
    /\ UNCHANGED <<form, flags, mode, result, cabIsLoading, cabError, history,
                   reassessCount, applied>>
    /\ RiskFrame

\* historyRef.current.push(snapshot)
\* (variant: the snapshot replaces the history)
PushReplacing(h, snapshot) == <<snapshot>>
Push(h, snapshot) == Append(h, snapshot)

\* handleReassess: the call resolves with `data`
ReassessResolve(c, data) ==
    /\ c \in inflight /\ c.kind = "reassess"
    /\ inflight' = inflight \ {c}
    /\ result' = Some(data)
    /\ form' = c.form
    /\ flags' = c.flags
    /\ reassessCount' = reassessCount + 1
    /\ history' = Push(history, Snapshot(data))
    /\ isReassessing' = FALSE
    /\ applied' = Applied(applied, Some(data), mode)
    /\ rlast' = Ran("reassessOk", c.id)
    /\ UNCHANGED <<mode, cabIsLoading, cabError, issued>>
    /\ RiskFrame

\* handleReassess: the call rejects; catch {} and finally
\* (variant: the failure is surfaced like that of an assess)
ReassessFailSurfaced(e, err) == Some(ErrorText(err))
ReassessFailError(e, err) == e

ReassessReject(c, err) ==
    /\ c \in inflight /\ c.kind = "reassess"
    /\ inflight' = inflight \ {c}
    /\ isReassessing' = FALSE
    /\ cabError' = ReassessFailError(cabError, err)
    /\ rlast' = Ran("reassessFail", c.id)
    /\ UNCHANGED <<form, flags, mode, result, cabIsLoading, history, reassessCount,
                   applied, issued>>
    /\ RiskFrame

\* handleEndRide, from ModeHeader (shown while mode === "monitoring") or the
\* bottom shortcut
HandleEndRide ==
    /\ mode = "monitoring"
    /\ mode' = "closed"
    /\ applied' = <<>>
    /\ rlast' = Ran("endRide", 0)
    /\ UNCHANGED <<form, flags, result, cabIsLoading, isReassessing, cabError, history,
                   reassessCount, inflight, issued>>
    /\ RiskFrame

\* Math.max(...history.map((h) => h.score))
MaxScore(h) ==
    CHOOSE m \in {h[i].score : i \in DOMAIN h} : \A i \in DOMAIN h : h[i].score <= m

\* history.reduce((a, b) => a.score >= b.score ? a : b)
RECURSIVE Reduce(_, _)
Reduce(a, rest) ==
    IF rest = <<>> THEN a
    ELSE Reduce(IF a.score >= Head(rest).score THEN a ELSE Head(rest), Tail(rest))

\* closureSummary
ClosureSummary(h, n) ==
    IF Len(h) > 0
    THEN Some([initialScore  |-> h[1].score,
               initialLevel  |-> h[1].level,
               peakScore     |-> MaxScore(h),
               peakLevel     |-> Reduce(Head(h), Tail(h)).level,
               finalScore    |-> h[Len(h)].score,
               finalLevel    |-> h[Len(h)].level,
               reassessCount |-> n])
    ELSE Null

closureSummary == ClosureSummary(history, reassessCount)

\* setForm({driver_name: "", ..., time_of_day: "day", area_type: "urban"})
\* (variant: the form is kept)
StartNewKeepsForm(f) == f
StartNewForm(f) == DefaultForm

\* handleStartNew, from RideClosure: {mode === "closed" && closureSummary && ...}
HandleStartNew ==
    /\ mode = "closed"
    /\ closureSummary # Null
    /\ form' = StartNewForm(form)
    /\ flags' = <<>>
    /\ result' = Null
    /\ cabError' = Null
    /\ history' = <<>>
    /\ reassessCount' = 0
    /\ mode' = "assessing"
    /\ applied' = <<>>
    /\ rlast' = Ran("startNew", 0)
    /\ UNCHANGED <<cabIsLoading, isReassessing, inflight, issued>>
    /\ RiskFrame

(***************************************************************************)
(* Inputs                                                                  *)
(***************************************************************************)
MaxFrames   == 2   \* lines of a response body (stream client alone)
MaxUpFrames == 2   \* lines of an upstream body (relay, pipeline)
Grain       == 6   \* pipeline: a chunk ends every Grain bytes, or where the data ends

GrainSizes(len) == {n \in 1..len : n % Grain = 0 \/ n = len}

\* req.body.goal as a request can carry it: absent, empty, blank, text
Goals == {Undefined, <<>>, <<SP>>, <<"g">>, <<SP, "g", SP>>}
\* the goal a caller of the stream client passes
ClientGoals == {<<SP>>, <<"g">>}

LineDone      == DataPrefix \o <<"{", Q, "t", "y", "p", "e", Q, ":", Q, "d", "o", "n", "e", Q, "}">>
\* json.dumps spacing, and a type holding a two-byte character
LineAccent    == DataPrefix \o <<"{", Q, "t", "y", "p", "e", Q, ":", SP, Q, LeadByte, ContByte, Q, "}">>
\* a payload cut short
LineMalformed == DataPrefix \o <<"{">>
LineNull      == DataPrefix \o <<"n", "u", "l", "l">>
\* the blank line that separates frames
LineBlank     == <<>>

Vocabulary == {LineDone, LineAccent, LineMalformed, LineNull, LineBlank}

RECURSIVE FrameSeqs(_)
FrameSeqs(n) ==
    IF n = 0 THEN {<<>>}
    ELSE LET P == FrameSeqs(n - 1) IN P \cup {Append(f, l) : f \in P, l \in Vocabulary}

RECURSIVE TextOf(_)
TextOf(frames) ==
    IF frames = <<>> THEN <<>> ELSE Head(frames) \o <<NL>> \o TextOf(Tail(frames))

\* what the upstream producer emits in the relay's and the pipeline's runs
UpVocabulary == {LineDone, LineAccent, LineBlank}

RECURSIVE UpFrameSeqs(_)
UpFrameSeqs(n) ==
    IF n = 0 THEN {<<>>}
    ELSE LET P == UpFrameSeqs(n - 1) IN P \cup {Append(f, l) : f \in P, l \in UpVocabulary}

Texts   == {TextOf(f) : f \in FrameSeqs(MaxFrames)}
UpTexts == {TextOf(f) : f \in UpFrameSeqs(MaxUpFrames)}

\* bodies of a non-success upstream response
ErrBodies == {<<>>, <<"E">>, <<Q, "E", NL>>}

\* err.message of a failed read, at the relay (characters) and in the browser
RelayErrMessages  == {<<"t", "e", "r", "m">>}
ClientErrMessages == {"", "Failed to fetch"}

Statuses == {200, 400, 500}

(***************************************************************************)
(* Initial state                                                           *)
(***************************************************************************)
Init ==
    /\ pc = "idle" /\ goal = Undefined /\ aborted = FALSE /\ netReq = 0
    /\ buffer = <<>> /\ pending = <<>> /\ calls = <<>>
    /\ down = <<>> /\ downEnded = FALSE /\ status = 0
    /\ rpc = "idle" /\ route = "" /\ reqGoal = Undefined /\ upFetches = 0
    /\ upStatus = 0 /\ up = <<>> /\ rPending = <<>> /\ errFrames = 0
    /\ jsonBody = "" /\ closeListener = FALSE /\ clientGone = FALSE
    /\ upCancelled = FALSE
    /\ sent = <<>> /\ consumed = <<>> /\ cancelledAt = -1 /\ cancels = 0
    /\ upSent = <<>> /\ upConsumed = <<>>
    /\ events = <<>> /\ plan = Null /\ isStreaming = FALSE /\ error = Null
    /\ criticResult = Null /\ intentProfile = Null /\ subtasks = <<>>
    /\ artifacts = <<>> /\ cancelRef = 0 /\ streams = <<>>
    /\ doneSeen = FALSE /\ folded = 0 /\ last = Nothing /\ scenario = -1
    /\ form = DefaultForm /\ flags = <<>> /\ mode = "assessing" /\ result = Null
    /\ cabIsLoading = FALSE /\ isReassessing = FALSE /\ cabError = Null
    /\ history = <<>> /\ reassessCount = 0 /\ applied = <<>>
    /\ inflight = {} /\ issued = 0 /\ rlast = Ran("", 0)

(***************************************************************************)
(* The stream client against any server                                    *)
(***************************************************************************)
\* a server answers the client's request with a status and a body;
\* like the relay, it answers 400 to a request without a goal
ServerResponds(st, body) ==
    /\ pc = "fetching"
    /\ status = 0
    /\ GoalMissing(goal) => st = 400
    /\ status' = st
    /\ down' = body
    /\ sent' = body
    /\ downEnded' = TRUE
    /\ UNCHANGED <<clientVars, relayVars, consumed, cancelledAt, cancels, upSent,
                   upConsumed, hookVars, riskVars>>

NextClient ==
    \/ \E g \in ClientGoals : CreateAgentStream(g)
    \/ \E g \in ClientGoals : HandleSubmit(g)
    \/ \E st \in Statuses, body \in Texts : ServerResponds(st, body)
    \/ FetchResolve
    \/ \E m \in ClientErrMessages : FetchReject(m)
    \/ \E n \in 1..Len(down) : ReadChunk(n)
    \/ ReadDone
    \/ \E m \in ClientErrMessages : ReadError(m)
    \/ Cancel

SpecClient == Init /\ [][NextClient]_vars

(***************************************************************************)
(* The relay against any client and any upstream                           *)
(***************************************************************************)
NextRelay ==
    \/ \E g \in Goals : RelayStream(g)
    \/ \E g \in Goals : RelayRun(g)
    \/ \E body \in UpTexts : UpFetchResolve(200, body)
    \/ \E st \in Statuses \ {200}, body \in ErrBodies : UpFetchResolve(st, body)
    \/ UpFetchReject
    \/ ErrBodyResolve
    \/ ErrBodyReject
    \/ \E n \in 1..Len(up) : PumpRead(n)
    \/ PumpDone
    \/ \E m \in RelayErrMessages : PumpError(m)
    \/ ClientClose
    \/ \E st \in Statuses : RunFetchResolve(st)
    \/ RunBodyResolve
    \/ RunReject

SpecRelay == Init /\ [][NextRelay]_vars

(***************************************************************************)
(* The pipeline: upstream producer -> relay -> stream client               *)
(***************************************************************************)
Next ==
    \/ \E g \in ClientGoals : CreateAgentStream(g)
    \/ \E g \in ClientGoals : HandleSubmit(g)
    \/ \E g \in {goal} : pc = "fetching" /\ RelayStream(g)
    \/ \E body \in UpTexts : UpFetchResolve(200, body)
    \/ \E st \in Statuses \ {200}, body \in ErrBodies : UpFetchResolve(st, body)
    \/ UpFetchReject
    \/ ErrBodyResolve
    \/ ErrBodyReject
    \/ \E n \in GrainSizes(Len(up)) : PumpRead(n)
    \/ PumpDone
    \/ \E m \in RelayErrMessages : PumpError(m)
    \/ pc \notin {"idle", "fetching", "reading"} /\ ClientClose
    \/ FetchResolve
    \/ \E m \in ClientErrMessages : FetchReject(m)
    \/ \E n \in GrainSizes(Len(down)) : ReadChunk(n)
    \/ ReadDone
    \/ \E m \in ClientErrMessages : ReadError(m)
    \/ Cancel

Spec == Init /\ [][Next]_vars

(***************************************************************************)
(* The pipeline with the reducer's isStreaming, under fair scheduling      *)
(***************************************************************************)
\* useAgentStream passes onEvent, onDone and onError to createAgentStream,
\* which invokes them synchronously: what a callback does to isStreaming
\* (onDone and onError: setIsStreaming(false); onEvent never sets it)
\* (variant: onError leaves isStreaming alone)
CallbackEffectDoneOnly(b, call) == IF call.cb = "onDone" THEN FALSE ELSE b
CallbackEffect(b, call) == IF call.cb \in {"onDone", "onError"} THEN FALSE ELSE b

RECURSIVE FoldStreaming(_, _)
FoldStreaming(b, cs) ==
    IF cs = <<>> THEN b ELSE FoldStreaming(CallbackEffect(b, Head(cs)), Tail(cs))

\* isStreaming of the hook that opened the stream: startStream sets it
\* (setIsStreaming(true)), then the callbacks invoked so far apply in order
uiStreaming == pc # "idle" /\ FoldStreaming(TRUE, calls)

\* the relay's handler and the upstream producer: the request arrives, the
\* upstream answers, the body read finds the body ended
RelaySettles ==
    \/ \E g \in {goal} : pc = "fetching" /\ RelayStream(g)
    \/ \E body \in UpTexts : UpFetchResolve(200, body)
    \/ \E st \in Statuses \ {200}, body \in ErrBodies : UpFetchResolve(st, body)
    \/ PumpDone

\* the browser's event loop runs the continuation of a settled fetch, and
\* of the read that finds the body ended
ClientSettles == FetchResolve \/ ReadDone

\* the relay's await of upstream.text() settles; a read of the upstream
\* body that has bytes to return resolves with some of them
RelayTransfers ==
    \/ ErrBodyResolve
    \/ ErrBodyReject
    \/ \E n \in GrainSizes(Len(up)) : PumpRead(n)
\* the client's read that has bytes to return resolves with some of them
ClientReads == \E n \in GrainSizes(Len(down)) : ReadChunk(n)

\* when RelayTransfers, ClientReads can happen
RelayTransferable == rpc = "errbody" \/ (rpc = "pumping" /\ ~upCancelled /\ up # <<>>)
ClientReadable    == pc = "reading" /\ down # <<>>

\* weak fairness of the four; for the two that move bytes the enabling
\* condition is written out.  A failure (a fetch or a read that rejects) may
\* happen at any time and is never required to.
\* one stream through the pipeline, cancelled at most once
NextLive ==
    \/ \E g \in ClientGoals : CreateAgentStream(g)
    \/ \E g \in ClientGoals : HandleSubmit(g)
    \/ RelaySettles
    \/ UpFetchReject
    \/ RelayTransfers
    \/ \E m \in RelayErrMessages : PumpError(m)
    \/ ClientSettles
    \/ \E m \in ClientErrMessages : FetchReject(m)
    \/ ClientReads
    \/ \E m \in ClientErrMessages : ReadError(m)
    \/ cancels = 0 /\ Cancel

SpecLive ==
    /\ Init /\ [][NextLive]_vars
    /\ WF_vars(RelaySettles)
    /\ WF_vars(ClientSettles)
    /\ ([]<>(~RelayTransferable) \/ []<><<RelayTransfers>>_vars)
    /\ ([]<>(~ClientReadable) \/ []<><<ClientReads>>_vars)

(***************************************************************************)
(* The reducer against any stream                                          *)
(***************************************************************************)
Pending1 == [id |-> 1, status |-> "pending"]

PlanDecomposed == [Event("plan_decomposed") EXCEPT !.subtasks = Some(<<Pending1>>)]
\* plan_decomposed without subtasks: event.subtasks || []
PlanDecomposedBare == Event("plan_decomposed")
SubtaskStart(k)    == [Event("subtask_start") EXCEPT !.subtask_id = k]
SubtaskComplete(k) == [Event("subtask_complete") EXCEPT !.subtask_id = k]
ArtifactReady == [Event("artifact_ready") EXCEPT !.artifact = [id |-> "a1", from |-> "stream"]]
\* a plan that embeds the artifacts, and one without
PlanWith == [name |-> "p", artifacts |-> <<[id |-> "a1", from |-> "plan"],
                                           [id |-> "a2", from |-> "plan"]>>]
PlanBare == [name |-> "q", artifacts |-> <<>>]
Result(p) == [Event("result") EXCEPT !.plan = Some(p)]

HookEvents ==
    {PlanDecomposed, PlanDecomposedBare, SubtaskStart(1), SubtaskStart(2),
     SubtaskComplete(1), ArtifactReady, Result(PlanWith),
     Result(PlanBare), Event("critic"),
     [Event("intent_analyzed") EXCEPT !.intent = "i"], Event("session")}

HookErrMessages == {"Stream connection failed."}

NextHook ==
    \/ StartStream
    \/ \E s \in DOMAIN streams, e \in HookEvents : OnEvent(s, e)
    \/ \E s \in DOMAIN streams : OnDoneFrame(s)
    \/ \E s \in DOMAIN streams : OnDoneClose(s)
    \/ \E s \in DOMAIN streams, m \in HookErrMessages : OnError(s, m)
    \/ HookCancel
    \/ Reset

SpecHook == Init /\ [][NextHook]_vars

(***************************************************************************)
(* The risk session against any user and any scoring service               *)
(***************************************************************************)
\* what the user enters, and what the scoring call answers
FormEdits == {<<"driver_name", "d">>, <<"area_type", "highway">>}
FlagIds == {"route_deviation", "doors_locked"}
UpdateIds == {"route_corrected", "entered_busy_area"}
RiskResponses == {Data(40, "MODERATE"), Data(70, "HIGH"), Data(70, "CRITICAL")}
RiskErrors ==
    {[response |-> "", message |-> "Network Error"],
     [response |-> "", message |-> ""]}

NextRisk ==
    \/ \E e \in FormEdits : SetField(e[1], e[2])
    \/ \E f \in FlagIds : ToggleFlag(f)
    \/ \E u \in UpdateIds : ToggleUpdate(u)
    \/ HandleAssess
    \/ \E c \in inflight, d \in RiskResponses : AssessResolve(c, d)
    \/ \E c \in inflight, e \in RiskErrors : AssessReject(c, e)
    \/ HandleReassess
    \/ \E c \in inflight, d \in RiskResponses : ReassessResolve(c, d)
    \/ \E c \in inflight, e \in RiskErrors : ReassessReject(c, e)
    \/ HandleEndRide
    \/ HandleStartNew

SpecRisk == Init /\ [][NextRisk]_vars

(***************************************************************************)
(* Properties                                                              *)
(***************************************************************************)
IsPrefix(a, b) == Len(a) <= Len(b) /\ SubSeq(b, 1, Len(a)) = a

Count(cs, cb) == Cardinality({i \in 1..Len(cs) : cs[i].cb = cb})

\* the newline-terminated lines of a byte stream
CompleteLines(bytes) == Front(Split(TextDecode(<<>>, bytes).text))

WellFormed(line) ==
    StartsWith(line, DataPrefix) /\ JSONParse(Slice(line, PrefixLen)).kind = "object"

Malformed(line) ==
    StartsWith(line, DataPrefix) /\ JSONParse(Slice(line, PrefixLen)).kind = "error"

Blank(g) == g = Undefined \/ \A i \in 1..Len(g) : IsSpace(g[i])

\* the callbacks that frames caused: all but the closing onDone / onError
FrameCalls == IF pc \in {"closed", "failed", "refused"} THEN Front(calls) ELSE calls

\* one callback per well-formed line, in line order
ExpectedCalls(lines) ==
    LET w == SelectSeq(lines, WellFormed) IN
    [i \in 1..Len(w) |->
        LET e == JSONParse(Slice(w[i], PrefixLen)).val IN
        IF e.type = TypeDone THEN DoneCall ELSE EventCall(e)]

\* C1: chunking invariance. However the bytes read so far were cut into
\* chunks, the callbacks invoked are those that the same bytes produce when
\* they arrive as a single chunk; at the close the closing onDone follows.
ChunkingInvariance ==
    pc \in {"reading", "closed"} =>
        LET whole == ProcessChunk(<<>>, <<>>, <<>>, consumed) IN
        /\ calls = IF pc = "closed" THEN Append(whole.calls, DoneCall) ELSE whole.calls
        /\ pc = "closed" => consumed = sent

\* a chunk ended inside a two-byte character of a payload, after callbacks
ChunkingWitness ==
    /\ pc = "reading"
    /\ pending # <<>>
    /\ StartsWith(buffer, DataPrefix)
    /\ calls # <<>>
    /\ down # <<>>

\* C2: a malformed frame never aborts the stream. While the transport is
\* healthy no onError is invoked, and the frames delivered are as many as the
\* well-formed lines read, wherever the malformed lines stand among them.
MalformedNeverAborts ==
    pc \in {"reading", "closed"} =>
        LET lines == CompleteLines(consumed) IN
        /\ Count(calls, "onError") = 0
        /\ Len(FrameCalls) = Cardinality({i \in 1..Len(lines) : WellFormed(lines[i])})

\* a malformed line was read, and after it a well-formed one was delivered
MalformedWitness ==
    /\ pc = "closed"
    /\ LET lines == CompleteLines(consumed) IN
       /\ Len(lines) = 2
       /\ Malformed(lines[1])
       /\ WellFormed(lines[2])
    /\ Count(calls, "onEvent") = 1

\* C3: order preservation across the hops. As long as the relay added no
\* frame of its own, the callbacks that frames caused are, in order, those of
\* the well-formed data lines of the upstream body: a prefix of them while the
\* stream runs, all of them once it closed.
OrderPreserved ==
    (route = "stream" /\ Ok(upStatus) /\ errFrames = 0) =>
        LET expected == ExpectedCalls(CompleteLines(upSent)) IN
        /\ IsPrefix(FrameCalls, expected)
        /\ (pc = "closed" /\ up = <<>>) => FrameCalls = expected

\* an event frame and then a done frame went through both hops
OrderWitness ==
    /\ pc = "closed"
    /\ Ok(upStatus) /\ errFrames = 0
    /\ Len(FrameCalls) = 2
    /\ FrameCalls[1].cb = "onEvent" /\ FrameCalls[2].cb = "onDone"
    /\ sent = upSent

\* C4: the done event ends the stream for the consumer: no onEvent is
\* invoked after an onDone.
DoneEndsStream ==
    \A i, j \in 1..Len(calls) :
        (i < j /\ calls[i].cb = "onDone") => calls[j].cb # "onEvent"

\* C5: exactly one terminal condition per stream: at most one of onDone and
\* onError is ever invoked, and exactly one once an uncancelled stream ended.
OneTerminal ==
    LET t == Count(calls, "onDone") + Count(calls, "onError") IN
    /\ t <= 1
    /\ pc \in {"closed", "failed", "refused"} => t = 1

\* C6: cancellation is silent. After cancel() is called in flight no callback
\* is invoked at all, and no onError ever was; a network failure invokes
\* onError once, last, with a message.
SilentCancel ==
    /\ cancelledAt >= 0 => (Len(calls) = cancelledAt /\ Count(calls, "onError") = 0)
    /\ pc = "failed" =>
          /\ Count(calls, "onError") = 1
          /\ Last(calls).cb = "onError"
          /\ Last(calls).msg # ""

\* cancel() was called between two reads, with frames delivered and bytes unread
CancelWitness ==
    /\ pc = "aborted"
    /\ cancelledAt > 0
    /\ consumed # <<>>
    /\ down # <<>>

\* C7: once the downstream client is gone the relay takes no further byte of
\* the upstream body, and a request that is still open has its upstream
\* reader cancelled.
DisconnectCancelsUpstream ==
    [][/\ clientGone => upConsumed' = upConsumed
       /\ (clientGone' /\ rpc' = "pumping") => upCancelled']_vars

\* C8: a missing or blank goal is answered 400 with no upstream fetch, on
\* /stream and on /run; any other goal issues exactly one upstream fetch.
GoalValidated ==
    rpc # "idle" =>
        IF Blank(reqGoal)
        THEN status = 400 /\ upFetches = 0 /\ rpc = "ended"
        ELSE upFetches = 1

\* a goal of white space was refused
GoalWitness ==
    /\ rpc = "ended"
    /\ reqGoal = <<SP>>
    /\ status = 400
    /\ upFetches = 0

\* C9: the stream client validates the goal locally: with a blank goal no
\* network request is performed.
LocalValidation ==
    (pc # "idle" /\ Blank(goal)) => netReq = 0

\* the bytes are one frame data: {"type":"error","content":...} and a blank line
ErrorFrameHead ==
    <<"d", "a", "t", "a", ":", " ", "{", "\"", "t", "y", "p", "e", "\"", ":",
      "\"", "e", "r", "r", "o", "r", "\"", ",",
      "\"", "c", "o", "n", "t", "e", "n", "t", "\"", ":">>

IsErrorFrame(bytes, contents) ==
    LET ls == Split(TextDecode(<<>>, bytes).text) IN
    /\ Len(ls) = 3 /\ ls[2] = <<>> /\ ls[3] = <<>>
    /\ StartsWith(ls[1], ErrorFrameHead)
    /\ LET r == JSONParse(Slice(ls[1], PrefixLen)) IN
       /\ r.kind = "object"
       /\ r.val.type = TypeError
       /\ r.val.content \in contents

\* C10: when the upstream call fails before the relay forwarded anything
\* (the fetch rejects, or the status is not a success), the response body is
\* exactly one error frame and a blank line, then the end.
SingleErrorFrame ==
    (route = "stream" /\ upFetches = 1 /\ ~Ok(upStatus)) =>
        IF rpc = "ended"
        THEN /\ errFrames = 1
             /\ downEnded
             /\ IsErrorFrame(sent, {Unreachable, TextDecodeNoStream(<<>>, upSent).text})
        ELSE sent = <<>> /\ ~downEnded

\* a 500 whose body holds a quote and a newline became one frame
ErrorFrameWitness ==
    /\ route = "stream" /\ rpc = "ended"
    /\ upStatus = 500
    /\ upSent = <<Q, "E", NL>>
    /\ errFrames = 1
    /\ Len(sent) > Len(ErrorFrame(<<>>))

\* C11: the relay forwards upstream chunks verbatim and one for one: every
\* chunk the pump reads appends exactly the bytes of that chunk to the
\* response, and the relay adds no frame of its own in that step.
VerbatimChunks ==
    [][(rpc = "pumping" /\ upConsumed' # upConsumed) =>
           /\ SubSeq(sent', Len(sent) + 1, Len(sent'))
                  = SubSeq(upConsumed', Len(upConsumed) + 1, Len(upConsumed'))
           /\ errFrames' = errFrames]_vars

\* C12: a response whose status is not a success makes the client signal one
\* error and stop: no byte of the body is read, onEvent and onDone are never
\* invoked, and the only callback of the refused stream is one onError.
NotOkSingleError ==
    (status # 0 /\ status \notin 200..299) =>
        /\ pc \notin {"reading", "closed"}
        /\ consumed = <<>>
        /\ Count(calls, "onEvent") = 0 /\ Count(calls, "onDone") = 0
        /\ Count(calls, "onError") <= 1
        /\ pc = "refused" => calls = <<ErrorCall("Stream connection failed.")>>

\* a 500 with frames in its body was refused, the body left unread
NotOkWitness ==
    /\ pc = "refused"
    /\ status = 500
    /\ down = LineAccent \o <<NL>> \o LineDone \o <<NL>>
    /\ Len(calls) = 1

\* C13: the cancel function is idempotent and safe after completion: no call
\* of it invokes a callback, a call made when nothing is pending (after
\* onDone or onError, or after an earlier cancel) changes nothing of the
\* stream, and once it was called no callback is invoked any more.
CancelIdempotent ==
    [][/\ (cancels' # cancels \/ cancels >= 1) => calls' = calls
       /\ (cancels' # cancels /\ (pc \notin {"fetching", "reading"} \/ aborted)) =>
              UNCHANGED <<pc, buffer, pending, netReq, down, consumed>>]_vars

\* cancel was called twice after the stream had closed with its onDone
CancelTwiceWitness ==
    /\ cancels = 2
    /\ pc = "closed"
    /\ cancelledAt = -1
    /\ Last(calls).cb = "onDone"

\* a callback of a stream, as against a call of the hook's own functions
IsCallback(h) == h.cb \in {"onEvent", "onDone", "onError"}

UniqueIds(as) == \A i, j \in DOMAIN as : i # j => as[i].id # as[j].id

\* C14: startStream cancels the prior stream and sets the state to its
\* initial values; from then on only the stream it opened feeds the reducer:
\* no other stream is open, and every callback handled is one of that stream.
StartCancelsAndResets ==
    /\ [](/\ \A s \in DOMAIN streams : s # cancelRef => streams[s] # "open"
          /\ IsCallback(last) => last.src = cancelRef)
    /\ [][Len(streams') > Len(streams) =>
              /\ events' = <<>> /\ plan' = Null /\ error' = Null
              /\ criticResult' = Null /\ intentProfile' = Null
              /\ subtasks' = <<>> /\ artifacts' = <<>>
              /\ isStreaming'
              /\ \A s \in DOMAIN streams : streams'[s] # "open"]_vars

\* a stream that had fed the reducer was replaced while open; the new one feeds
RestartWitness ==
    /\ Len(streams) = 2
    /\ streams[1] = "aborted" /\ streams[2] = "open"
    /\ folded = 3
    /\ events = <<"critic">>
    /\ last = Handled(2, "onEvent", Event("critic"), "")

\* C15: monotonic subtask status: an event never takes a subtask that is
\* complete to another status.
MonotonicStatus ==
    [][folded' # folded =>
          \A i \in DOMAIN subtasks : \A j \in DOMAIN subtasks' :
              (subtasks[i].status = "complete" /\ subtasks'[j].id = subtasks[i].id)
                  => subtasks'[j].status = "complete"]_vars

\* C16: the artifacts list never holds two entries with the same id.
UniqueArtifactIds == UniqueIds(artifacts)

\* C17: artifact resync: right after a result whose plan embeds artifacts,
\* whatever artifact_ready events came before it, artifacts is the plan's
\* list, each id once, and plan is the result's plan.
ResyncIdempotent ==
    (/\ last.cb = "onEvent" /\ last.ev.type = "result"
     /\ last.ev.plan # Null /\ Len(last.ev.plan[1].artifacts) > 0
     /\ UniqueIds(last.ev.plan[1].artifacts)) =>
        /\ artifacts = last.ev.plan[1].artifacts
        /\ UniqueIds(artifacts)
        /\ plan = last.ev.plan

\* artifact_ready came twice for the id, then the result that embeds it
ResyncWitness ==
    /\ last = Handled(1, "onEvent", Result(PlanWith), "")
    /\ events = <<"artifact_ready", "artifact_ready">>
    /\ Len(artifacts) = 2

\* C18: subtask_start and subtask_complete for an id that is in no entry of
\* the subtasks list leave the list as it is.
UnknownIdNoOp ==
    [][(/\ folded' # folded
        /\ last'.ev.type \in {"subtask_start", "subtask_complete"}
        /\ \A i \in DOMAIN subtasks : subtasks[i].id # last'.ev.subtask_id)
           => subtasks' = subtasks]_vars

\* subtask_start for id 2 met a list that holds the complete subtask 1
UnknownIdWitness ==
    /\ last = Handled(1, "onEvent", SubtaskStart(2), "")
    /\ subtasks = <<[id |-> 1, status |-> "complete"]>>

\* C19: streaming status ends only on an explicit terminal event: an onDone
\* takes isStreaming from true to false only if a done frame was decoded.
StreamingEndsOnDone ==
    [][(isStreaming /\ ~isStreaming' /\ last'.cb = "onDone") => doneSeen']_vars

\* C20: onDone sets isStreaming to false and leaves error; onError sets error
\* to the message and isStreaming to false; result sets plan to its plan; and
\* after plan_decomposed with subtask 1, subtask_start 1, subtask_complete 1,
\* result with a plan and done, the subtask is complete, the plan set,
\* isStreaming false and error null.
ReducerSession ==
    /\ [](scenario = 5 =>
            /\ ~isStreaming
            /\ subtasks = <<[id |-> 1, status |-> "complete"]>>
            /\ plan # Null
            /\ error = Null)
    /\ [][/\ last'.cb = "onDone" => (~isStreaming' /\ error' = error)
          /\ last'.cb = "onError" => (error' = Some(last'.msg) /\ ~isStreaming')
          /\ (last'.cb = "onEvent" /\ last'.ev.type = "result") => plan' = last'.ev.plan]_vars

\* the scenario ran to its done
SessionWitness ==
    /\ scenario = 5
    /\ plan = Some(PlanWith)
    /\ last.cb = "onDone"
    /\ streams = <<"open">>

\* C21: every transport failure yields a final UI state: a started stream
\* that is not cancelled leads to isStreaming false, whether the upstream is
\* unreachable, answers a non-success status or fails mid-stream, when the
\* relay and the transport eventually respond or close.
TransportFailureEnds == (pc # "idle") ~> (aborted \/ ~uiStreaming)

\* the upstream was unreachable, the stream was not cancelled, and the
\* reducer is no longer streaming
UnreachableEndsWitness ==
    /\ ~aborted /\ cancels = 0
    /\ upFetches = 1 /\ upStatus = 0 /\ errFrames = 1
    /\ pc = "closed"
    /\ ~uiStreaming

\* C22: a successful assess call leaves history equal to exactly one
\* snapshot taken from the response, reassessCount 0, the response as the
\* displayed result, and mode "monitoring".
AssessSuccessState ==
    rlast.op = "assessOk" =>
        /\ result # Null
        /\ history = <<Snapshot(result[1])>>
        /\ reassessCount = 0
        /\ mode = "monitoring"

\* C23: a failed assess call leaves the session in mode "assessing" with an
\* empty history and a non-null error message, whatever state the session
\* was in when the assess was issued.
AssessFailureState ==
    rlast.op = "assessFail" =>
        /\ mode = "assessing"
        /\ history = <<>>
        /\ cabError # Null

\* C24: a failed reassess call changes nothing observable: from its issue to
\* its failure the call leaves result, history, reassessCount, form, flags,
\* mode and error as they are; only isReassessing toggles.
ReassessFailureSilent ==
    [][(rlast' # rlast /\ rlast'.op \in {"reassess", "reassessFail"}) =>
           /\ UNCHANGED <<result, history, reassessCount, form, flags, mode, cabError>>
           /\ isReassessing' = (rlast'.op = "reassess")]_vars

\* a reassess failed while a result was displayed in monitoring mode
ReassessFailureWitness ==
    /\ rlast.op = "reassessFail"
    /\ mode = "monitoring"
    /\ result = Some(Data(70, "HIGH"))
    /\ history = <<Snapshot(Data(70, "HIGH"))>>
    /\ reassessCount = 0
    /\ cabError = Null
    /\ ~isReassessing

\* C25: a successful reassess call replaces the displayed result with the
\* response, commits the updated area_type and flags of the call as the
\* form/flags baseline, appends exactly one snapshot (that of the response)
\* to the end of history and increments reassessCount by exactly one; it
\* leaves mode as it is.
ReassessSuccessCommits ==
    [][(rlast' # rlast /\ rlast'.op = "reassessOk") =>
           \E c \in inflight :
               /\ c.id = rlast'.id /\ c.kind = "reassess"
               /\ result' # Null
               /\ history' = Append(history, Snapshot(result'[1]))
               /\ reassessCount' = reassessCount + 1
               /\ form'.area_type = c.form.area_type
               /\ flags' = c.flags
               /\ mode' = mode]_vars

\* a reassess that removed a flag and downgraded the area succeeded in
\* monitoring mode
ReassessSuccessWitness ==
    /\ rlast.op = "reassessOk"
    /\ mode = "monitoring"
    /\ result = Some(Data(40, "MODERATE"))
    /\ history = <<Snapshot(Data(70, "HIGH")), Snapshot(Data(40, "MODERATE"))>>
    /\ reassessCount = 1
    /\ form.area_type = "urban"
    /\ flags = <<"doors_locked">>
    /\ applied = <<"route_corrected", "entered_busy_area">>

\* the entries of h that hold its maximum score
PeakPositions(h) == {i \in DOMAIN h : h[i].score = MaxScore(h)}

\* C26: peakScore is the maximum score in history, and peakLevel is the level
\* of the most recent history entry having that score.
PeakTieBreak ==
    closureSummary # Null =>
        /\ closureSummary[1].peakScore = MaxScore(history)
        /\ closureSummary[1].peakLevel =
               history[CHOOSE i \in PeakPositions(history) :
                           \A j \in PeakPositions(history) : j <= i].level

\* C27: for a non-empty history the summary's initial entry is history[0],
\* its final entry is the last one, and its reassessCount is the history
\* length minus one.
SummaryShape ==
    closureSummary # Null =>
        /\ closureSummary[1].initialScore = history[1].score
        /\ closureSummary[1].initialLevel = history[1].level
        /\ closureSummary[1].finalScore = history[Len(history)].score
        /\ closureSummary[1].finalLevel = history[Len(history)].level
        /\ closureSummary[1].reassessCount = Len(history) - 1

\* C28: once mode is "closed", no step other than Start new changes history,
\* reassessCount or mode.
ClosedFrozen ==
    [][(mode = "closed" /\ rlast'.op # "startNew") =>
           UNCHANGED <<history, reassessCount, mode>>]_vars

\* C29: at most one scoring call is in flight at any time, and a reassess is
\* issued only in mode "monitoring".
OneCallInFlight ==
    /\ Cardinality(inflight) <= 1
    /\ rlast.op = "reassess" => mode = "monitoring"

\* C30: in mode "monitoring" or "closed" the history is non-empty.
MonitoringHasHistory == mode \in {"monitoring", "closed"} => history # <<>>

\* C31: immediately after Start new the form is the default form, flags and
\* history are empty, reassessCount is 0, result and error are null and mode
\* is "assessing".
StartNewDefaults ==
    rlast.op = "startNew" =>
        /\ form = [driver_name |-> "", time_of_day |-> "day", area_type |-> "urban"]
        /\ flags = <<>>
        /\ history = <<>>
        /\ reassessCount = 0
        /\ result = Null
        /\ cabError = Null
        /\ mode = "assessing"

\* Start new was pressed on a closed ride while a scoring call was in flight
StartNewWitness ==
    /\ rlast.op = "startNew"
    /\ mode = "assessing"
    /\ inflight # {}
    /\ issued >= 2

\* C32: each critic, intent_analyzed, plan_decomposed and artifact_ready
\* event updates its typed field and appends exactly one entry to the events
\* log; within one stream (every step but startStream and reset) the earlier
\* log is a prefix of the later one.
FieldPlusLog ==
    [][/\ folded' # folded =>
            LET e == last'.ev IN
            /\ e.type \in {"critic", "intent_analyzed", "plan_decomposed", "artifact_ready"}
                   => events' = Append(events, e.type)
            /\ e.type = "critic" => criticResult' = Some(e)
            /\ e.type = "intent_analyzed" => intentProfile' = Some(e.intent)
            /\ e.type = "plan_decomposed" =>
                   subtasks' = IF e.subtasks = Null THEN <<>> ELSE e.subtasks[1]
            /\ e.type = "artifact_ready" => artifacts' = Append(artifacts, e.artifact)
       /\ last'.cb \in {"onEvent", "onDone", "onError", "cancel"} => IsPrefix(events, events')
      ]_vars

\* an intent_analyzed, an artifact_ready and a critic event were handled in
\* one stream
FieldPlusLogWitness ==
    /\ events = <<"intent_analyzed", "artifact_ready", "critic">>
    /\ intentProfile = Some("i")
    /\ artifacts = <<[id |-> "a1", from |-> "stream"]>>
    /\ criticResult = Some(Event("critic"))
    /\ last.cb = "onEvent" /\ last.ev.type = "critic"

(***************************************************************************)
(* AgentStream: the progress bar shown over the events log                 *)
(***************************************************************************)
\* AGENT_STEPS: the keys, in order
AGENT_STEPS ==
    <<"session", "intent_analyzed", "plan_decomposed", "thinking", "acting",
      "tool_result", "artifact_ready", "critic", "result">>

\* seenTypes.has(key), of the entries' types
SeenTypes(evs) == {evs[k] : k \in DOMAIN evs}

\* if (seenTypes.has(s.key)) currentStep = i
\* (variant: the first step seen is kept)
StepSeenFirst(cur, i, seen) == IF seen /\ cur = 0 THEN i ELSE cur
StepSeen(cur, i, seen) == IF seen THEN i ELSE cur

\* AGENT_STEPS.forEach((s, i) => ...), from index i (0-based) on
RECURSIVE ForEachStep(_, _, _)
ForEachStep(evs, i, cur) ==
    IF i >= Len(AGENT_STEPS) THEN cur
    ELSE ForEachStep(evs, i + 1,
                     StepSeen(cur, i, AGENT_STEPS[i + 1] \in SeenTypes(evs)))

\* Math.round((currentStep / total) * 100)
Pct(currentStep, total) == (200 * currentStep + total) \div (2 * total)

\* ProgressBar({ events, isStreaming, planReady }): what it shows
ProgressBar(evs, streaming, planReady) ==
    IF planReady
    THEN [status |-> "Complete", currentStep |-> 0, total |-> 0, pct |-> 100]
    ELSE LET currentStep == ForEachStep(evs, 0, 0)
             total == Len(AGENT_STEPS) - 1
         IN [status |-> IF streaming THEN "step" ELSE "Complete",
             currentStep |-> currentStep, total |-> total,
             pct |-> Pct(currentStep, total)]

\* <ProgressBar events={events} isStreaming={isStreaming} planReady={!!plan} />
progressBar == ProgressBar(events, isStreaming, plan # Null)

\* the 0-based positions in AGENT_STEPS of the types the log holds
SeenPositions(evs) ==
    {i \in 0..(Len(AGENT_STEPS) - 1) : \E k \in DOMAIN evs : evs[k] = AGENT_STEPS[i + 1]}

ProgressCompleteWitness ==
    /\ plan # Null
    /\ events = <<"session", "intent_analyzed">>
    /\ progressBar.status = "Complete"

(***************************************************************************)
(* The de-escalation panel of one ride: any flags, any applied updates     *)
(***************************************************************************)
PanelAreas == {"isolated"}
PanelFlagIds == {"route_deviation", "aggressive", "speeding"}
PanelUpdateIds == {"route_corrected", "entered_busy_area", "calm_behaviour"}
PanelResponse == Data(40, "MODERATE")

\* one ride: assessed once, re-assessed from the panel
NextPanel ==
    \/ \E a \in PanelAreas : SetField("area_type", a)
    \/ \E f \in PanelFlagIds : ToggleFlag(f)
    \/ \E u \in PanelUpdateIds : ToggleUpdate(u)
    \/ issued = 0 /\ HandleAssess
    \/ \E c \in inflight : AssessResolve(c, PanelResponse)
    \/ HandleReassess
    \/ \E c \in inflight : ReassessResolve(c, PanelResponse)

SpecPanel == Init /\ [][NextPanel]_vars

\* the flags a set of updates removes
Removed(ids) ==
    UNION {SITUATION_UPDATES[i].removes[1] :
              i \in {j \in DOMAIN SITUATION_UPDATES :
                        /\ SITUATION_UPDATES[j].id \in ids
                        /\ SITUATION_UPDATES[j].removes # Null}}

\* the positions in `app` of the updates that define reduces_area
Reducing(app) ==
    {k \in DOMAIN app :
        \E i \in DOMAIN SITUATION_UPDATES :
            /\ SITUATION_UPDATES[i].id = app[k]
            /\ SITUATION_UPDATES[i].reduces_area # Null}

\* the scoring call that the last step issued
Issued == CHOOSE c \in inflight : c.id = rlast.id

\* C34: the flags a reassess sends are the current flags without every flag
\* that some applied update removes, whatever the order the updates were
\* applied in; the area it sends is the reduces_area of the last applied
\* update that defines one, or the current area_type when none does.
UpdatesCompose ==
    rlast.op = "reassess" =>
        /\ Issued.flags = SelectSeq(flags, LAMBDA f : f \notin Removed({applied[k] : k \in DOMAIN applied}))
        /\ \A k \in DOMAIN Issued.flags : Includes(flags, Issued.flags[k])
        /\ Issued.form.area_type =
              IF Reducing(applied) = {} THEN form.area_type
              ELSE LET k == CHOOSE k \in Reducing(applied) : \A j \in Reducing(applied) : j <= k
                   IN (Find(applied[k]))[1].reduces_area[1]

\* three updates were applied, the last one first in the table, and two of
\* them removed a flag that was set
UpdatesComposeWitness ==
    /\ rlast.op = "reassess"
    /\ applied = <<"calm_behaviour", "entered_busy_area", "route_corrected">>
    /\ flags = <<"route_deviation", "speeding", "aggressive">>
    /\ form.area_type = "isolated"
    /\ Issued.flags = <<"speeding">>
    /\ Issued.form.area_type = "urban"

\* C35: whenever the history is non-empty, reassessCount is the history
\* length minus one, whatever the interleaving of the user's actions with the
\* completions of the scoring calls.
CounterMatchesHistory ==
    history # <<>> => reassessCount = Len(history) - 1

\* C36: whenever mode is "closed" the closure summary is non-null, so the
\* closure view with its Start new action is shown and the session can go
\* back to "assessing".
ClosedShowsStartNew ==
    mode = "closed" => closureSummary # Null

\* a closed ride without a summary and without a scoring call in flight: no
\* control of the page is rendered and no continuation is pending
DeadEnd ==
    /\ mode = "closed"
    /\ closureSummary = Null
    /\ inflight = {}

\* C37: a reassess that succeeds leaves every form field but area_type as it
\* was just before the call completed, also when the form was edited while
\* the call was in flight.
ReassessKeepsFields ==
    [][(rlast' # rlast /\ rlast'.op = "reassessOk") =>
           /\ form'.driver_name = form.driver_name
           /\ form'.time_of_day = form.time_of_day]_vars

(***************************************************************************)
(* CabSafetyPage: what a render derives from result and the history        *)
(***************************************************************************)
\* deltaLabel(prev, curr)
deltaLabel(prev, curr) ==
    LET diff == curr - prev IN
    IF diff = 0 THEN Null
    ELSE Some([value |-> IF diff < 0 THEN 0 - diff ELSE diff,
               direction |-> IF diff < 0 THEN "down" ELSE "up"])

\* const risk = result?.risk
risk == IF result = Null THEN Null ELSE Some(result[1].risk)

\* historyRef.current.length >= 2 ? historyRef.current[length - 2] : null
\* (variant: the first entry is taken)
prevEntryFirst == IF Len(history) >= 2 THEN Some(history[1]) ELSE Null
prevEntry == IF Len(history) >= 2 THEN Some(history[Len(history) - 1]) ELSE Null

\* prevEntry ? deltaLabel(prevEntry.score, risk?.score ?? 0) : null
scoreDelta ==
    IF prevEntry # Null
    THEN deltaLabel(prevEntry[1].score, IF risk # Null THEN risk[1].score ELSE 0)
    ELSE Null

\* C38: whenever a result is displayed, its score and level are those of the
\* last history entry, and the score delta shown is the difference between
\* the last two history entries (none for a single entry or equal scores).
DisplayedMatchesLatest ==
    result # Null =>
        /\ history # <<>>
        /\ risk[1].score = history[Len(history)].score
        /\ risk[1].level = history[Len(history)].level
        /\ Len(history) < 2 => scoreDelta = Null
        /\ Len(history) >= 2 =>
              LET d == history[Len(history)].score - history[Len(history) - 1].score IN
              /\ d = 0 => scoreDelta = Null
              /\ d > 0 => scoreDelta = Some([value |-> d, direction |-> "up"])
              /\ d < 0 => scoreDelta = Some([value |-> 0 - d, direction |-> "down"])

\* a second reassess brought the score back up: three entries, the delta is
\* taken against the middle one
DisplayedWitness ==
    /\ rlast.op = "reassessOk"
    /\ history = <<[score |-> 70, level |-> "HIGH"], [score |-> 40, level |-> "MODERATE"],
                   [score |-> 70, level |-> "CRITICAL"]>>
    /\ result = Some(Data(70, "CRITICAL"))
    /\ scoreDelta = Some([value |-> 30, direction |-> "up"])

\* C39: when the relay's upstream read fails after chunks were forwarded, the
\* client that reads the response to its end has decoded the relay's error
\* frame as an event of type "error", wherever in a line the failure fell.
MidStreamErrorSeen ==
    (/\ route = "stream" /\ rpc = "ended"
     /\ Ok(upStatus) /\ errFrames = 1
     /\ upConsumed # <<>>
     /\ pc = "closed")
    => \E i \in DOMAIN calls : calls[i].cb = "onEvent" /\ calls[i].ev.type = TypeError

(***************************************************************************)
(* The stream client against a server whose last frame lacks its newline   *)
(***************************************************************************)
\* complete frames followed by a well-formed frame that is not terminated
OpenTexts ==
    {TextOf(f) \o l : f \in FrameSeqs(MaxFrames - 1), l \in {LineDone, LineAccent}}

NextClose ==
    \/ \E g \in ClientGoals : CreateAgentStream(g)
    \/ \E body \in OpenTexts : ServerResponds(200, body)
    \/ FetchResolve
    \/ \E n \in 1..Len(down) : ReadChunk(n)
    \/ ReadDone

SpecClose == Init /\ [][NextClose]_vars

\* C40: text still in the line buffer when the transport closes is discarded
\* undecoded: the callbacks of a closed stream are those of the
\* newline-terminated lines, followed by the closing onDone, and the
\* unterminated frame is still in the buffer.
UnterminatedDropped ==
    pc = "closed" =>
        /\ calls = Append(ExpectedCalls(CompleteLines(sent)), DoneCall)
        /\ buffer = Last(Split(TextDecode(<<>>, sent).text))
        /\ buffer # <<>>

\* the body was one done frame without its newline: the only callback is
\* the closing onDone
UnterminatedWitness ==
    /\ pc = "closed"
    /\ sent = TextEncode(LineDone)
    /\ buffer = LineDone
    /\ calls = <<DoneCall>>
====
